---------------------------- MODULE Spec2Model ----------------------------
(***************************************************************************)
(* A model of cat_Name_vs_Stock.py: the label table is tagged by keyword   *)
(* (prep_cat_name_data), given synthetic daily timestamps ending at the    *)
(* wall clock, reduced to per-timestamp counts, left-joined onto the price *)
(* table, correlated (scipy pearsonr) and exported.                         *)
(*                                                                         *)
(* Text is a sequence of one-character strings.  A DataFrame is a function *)
(* from column names to equally long sequences (column oriented, as in     *)
(* pandas); a frame built row by row (the merge result) is a sequence of   *)
(* records.  A date value is a tagged record: [kind |-> "day"] is a        *)
(* calendar day without a time of day (a 'YYYY-MM-DD' string or a date),   *)
(* [kind |-> "ts"] a pandas Timestamp: a day plus a time of day, where     *)
(* tod = 0 is midnight and every other tod is some later instant of the    *)
(* same day.                                                                *)
(***************************************************************************)
EXTENDS Integers, Sequences, FiniteSets, TLC

VARIABLES
    cat_df,      \* the caller's label table (columns -> values)
    stock_df,    \* the caller's price table (columns Date, Close)
    now,         \* the wall clock datetime.now() reads
    merged,      \* the local merged of the last analyze_cats_vs_stocks call, as the
                 \* call left it (set: whether lines 71-72 were reached)
    result,      \* what that call returned
    verdict,     \* the significance line that call printed
    err,         \* the exception that call caught ("none" when it caught none)
    written,     \* the files written by the last run (analysis and its export)
    op,          \* the operation performed last
    pre_cat,     \* cat_df as it was when that operation was entered
    pre_stock,   \* stock_df as it was when that operation was entered
    call,        \* the last analyze call: its inputs and its clock reading
    prev,        \* the analyze call before it: its inputs, clock reading and result
    runs         \* analyze calls so far

vars == <<cat_df, stock_df, now, merged, result, verdict, err, written, op,
          pre_cat, pre_stock, call, prev, runs>>

-----------------------------------------------------------------------------
(* Bounds of the model *)

MaxLabels == 2      \* longest label table
MaxPrices == 2      \* longest price table
MaxDay == 2         \* price dates are calendar days 1..MaxDay; the clock starts on
                    \* MaxDay and may reach the day after it
MaxLen == 5         \* longest free-form label text
MaxRuns == 2        \* analyze calls in one behaviour

-----------------------------------------------------------------------------
(* Text *)

UpperCase == <<"A","B","C","D","E","F","G","H","I","J","K","L","M",
               "N","O","P","Q","R","S","T","U","V","W","X","Y","Z">>
LowerCase == <<"a","b","c","d","e","f","g","h","i","j","k","l","m",
               "n","o","p","q","r","s","t","u","v","w","x","y","z">>

\* str.lower() on one character
lower_char(c) ==
    IF \E i \in 1..Len(UpperCase) : UpperCase[i] = c
    THEN LowerCase[CHOOSE i \in 1..Len(UpperCase) : UpperCase[i] = c]
    ELSE c

\* Series.str.lower() on one value
str_lower(s) == [i \in 1..Len(s) |-> lower_char(s[i])]

\* the names get_cat_names cycles through
names == << <<"M","u","s","k">>, <<"B","u","f","f","e","t">>,
            <<"S","t","o","n","k","s">>, <<"M","e","o","w","t","h">>,
            <<"C","o","i","n">>, <<"T","e","s","l","a">>, <<"C","a","s","h">>,
            <<"W","h","i","s","k","e","r","s">>,
            <<"B","i","t","c","o","i","n">>, <<"L","u","n","a">> >>

\* the alternatives of the pattern 'musk|stonks|buffet|tesla|coin|cash|bitcoin'
finance_keywords == << <<"m","u","s","k">>, <<"s","t","o","n","k","s">>,
                       <<"b","u","f","f","e","t">>, <<"t","e","s","l","a">>,
                       <<"c","o","i","n">>, <<"c","a","s","h">>,
                       <<"b","i","t","c","o","i","n">> >>

\* one alternative of the pattern matched at position s of the text, letters
\* compared without regard to case (case=False is re.IGNORECASE)
MatchAt(text, kw, s) ==
    /\ s + Len(kw) - 1 <= Len(text)
    /\ \A j \in 1..Len(kw) : lower_char(text[s + j - 1]) = lower_char(kw[j])

\* an anchored match (re.match): the pattern is tried at the first position only
str_contains_anchored(text, pats) ==
    \E k \in 1..Len(pats) : MatchAt(text, pats[k], 1)

\* Series.str.contains(pat, case=False, na=False) on one value: re.search, which
\* tries every start position and, at each, the alternatives in order
str_contains(text, pats) ==
    \E s \in 1..(Len(text) + 1) : \E k \in 1..Len(pats) : MatchAt(text, pats[k], s)

-----------------------------------------------------------------------------
(* Frames *)

\* number of rows of a column-oriented frame
NRows(df) == Len(df[CHOOSE c \in DOMAIN df : TRUE])

\* df[col] = values, in place: the column is added or replaced
SetCol(df, col, values) ==
    [c \in (DOMAIN df) \cup {col} |-> IF c = col THEN values ELSE df[c]]

\* prep_cat_name_data with the CatName column overwritten by its lowercase form
prep_cat_name_data_overwrite(df) ==
    LET NameLower == [i \in 1..NRows(df) |-> str_lower(df["CatName"][i])]
        d1 == SetCol(df, "CatName", NameLower)
        d2 == SetCol(d1, "NameLower", NameLower)
    IN  SetCol(d2, "IsFinanceInspired",
               [i \in 1..NRows(df) |-> str_contains(NameLower[i], finance_keywords)])

\* prep_cat_name_data: the frame it returns, which is the frame it was given
prep_cat_name_data(df) ==
    LET NameLower == [i \in 1..NRows(df) |-> str_lower(df["CatName"][i])]
        d1 == SetCol(df, "NameLower", NameLower)
    IN  SetCol(d1, "IsFinanceInspired",
               [i \in 1..NRows(df) |-> str_contains(NameLower[i], finance_keywords)])

-----------------------------------------------------------------------------
(* Dates *)

\* Times of day: 0 is midnight, 1 stands for any later instant of the day.  The
\* program only ever compares a label's time of day (that of the clock) with a
\* price's (midnight), so the instants after midnight need no telling apart.
TimesOfDay == {0, 1}

Timestamp(d, t) == [kind |-> "ts", day |-> d, tod |-> t]

\* the calendar day and time of day a date value denotes (a plain calendar day
\* denotes its midnight)
Instant(v) == <<v.day, IF v.kind = "ts" THEN v.tod ELSE 0>>

\* Timestamp order
Before(a, b) == a.day < b.day \/ (a.day = b.day /\ a.tod < b.tod)

\* a conversion that moves an already converted value off midnight (a timezone
\* shift applied on every call)
to_datetime_shifting(v) ==
    IF v.kind = "ts" THEN Timestamp(v.day, 1) ELSE Timestamp(v.day, 0)

\* pd.to_datetime on one value: a calendar day becomes the Timestamp of its
\* midnight, a Timestamp stays as it is
to_datetime(v) ==
    IF v.kind = "ts" THEN v ELSE Timestamp(v.day, 0)

\* a daily range of the given length that starts at the given instant
date_range_from_start(end, periods) ==
    [i \in 1..periods |-> Timestamp(end.day + (i - 1), end.tod)]

\* pd.date_range(end=end, periods=periods): daily frequency, not normalized, so
\* every element keeps the time of day of end
date_range(end, periods) ==
    [i \in 1..periods |-> Timestamp(end.day - (periods - i), end.tod)]

-----------------------------------------------------------------------------
(* Group, join, fill *)

RECURSIVE SortedKeys(_)
\* the distinct keys of a groupby, ascending
SortedKeys(S) ==
    IF S = {} THEN <<>>
    ELSE LET m == CHOOSE a \in S : \A b \in S : ~Before(b, a)
         IN  <<m>> \o SortedKeys(S \ {m})

\* cat_df[cat_df['IsFinanceInspired']].groupby('Date').size()
\*     .reset_index(name='FinanceCatCount'): one row per distinct Date of the
\* selected rows, with the number of selected rows that carry it
cat_trend_of(df) ==
    LET sel == {i \in 1..NRows(df) : df["IsFinanceInspired"][i]}
        keys == SortedKeys({df["Date"][i] : i \in sel})
    IN  [k \in 1..Len(keys) |->
            [Date |-> keys[k],
             FinanceCatCount |-> Cardinality({i \in sel : df["Date"][i] = keys[k]})]]

\* the rows of the price frame
StockRows(df) ==
    [i \in 1..NRows(df) |-> [Date |-> df["Date"][i], Close |-> df["Close"][i]]]

RECURSIVE InnerFrom(_, _, _)
InnerFrom(left, right, i) ==
    IF i > Len(left) THEN <<>>
    ELSE LET m == SelectSeq(right, LAMBDA r : r.Date = left[i].Date)
         IN  [j \in 1..Len(m) |->
                 [Date |-> left[i].Date, Close |-> left[i].Close,
                  FinanceCatCount |-> <<m[j].FinanceCatCount>>]]
             \o InnerFrom(left, right, i + 1)

\* an inner join: a left row without a partner is dropped
merge_inner(left, right) == InnerFrom(left, right, 1)

RECURSIVE MergeFrom(_, _, _)
MergeFrom(left, right, i) ==
    IF i > Len(left) THEN <<>>
    ELSE LET m == SelectSeq(right, LAMBDA r : r.Date = left[i].Date)
             rows == IF m = <<>>
                     THEN << [Date |-> left[i].Date, Close |-> left[i].Close,
                              FinanceCatCount |-> <<>>] >>
                     ELSE [j \in 1..Len(m) |->
                              [Date |-> left[i].Date, Close |-> left[i].Close,
                               FinanceCatCount |-> <<m[j].FinanceCatCount>>]]
         IN  rows \o MergeFrom(left, right, i + 1)

\* pd.merge(left, right, on='Date', how='left'): the left rows in their order,
\* each once per right row whose Date is the same instant, or once with a
\* missing count (<<>>, pandas' NaN) when there is none.  A present count c is <<c>>.
merge(left, right) == MergeFrom(left, right, 1)

\* merged['FinanceCatCount'].fillna(0)
fillna(rows) ==
    [i \in 1..Len(rows) |->
        [rows[i] EXCEPT !.FinanceCatCount = IF @ = <<>> THEN 0 ELSE @[1]]]

-----------------------------------------------------------------------------
(* Correlation *)

RECURSIVE Sum(_)
Sum(s) == IF s = <<>> THEN 0 ELSE Head(s) + Sum(Tail(s))

Products(x, y) == [i \in 1..Len(x) |-> x[i] * y[i]]

Sign(v) == IF v > 0 THEN 1 ELSE IF v < 0 THEN -1 ELSE 0

IsConstant(x) == \A i \in 1..Len(x) : x[i] = x[1]

NaN == [kind |-> "nan", n |-> 0, num |-> 0, den2 |-> 1]
NoValue == [kind |-> "none", n |-> 0, num |-> 0, den2 |-> 1]

\* The number num / sqrt(den2) computed from n points.  pearsonr's statistic is
\* this number; its p-value is the two-sided p of that statistic for n points,
\* and is carried as the same record.
Number(n, num, den2) == [kind |-> "num", n |-> n, num |-> num, den2 |-> den2]

\* Pearson's r of x and y as the exact pair (num, den2), r = num / sqrt(den2):
\* num = n*Sxy - Sx*Sy, den2 = (n*Sxx - Sx^2) * (n*Syy - Sy^2)
PearsonNum(x, y) == Len(x) * Sum(Products(x, y)) - Sum(x) * Sum(y)
PearsonDen2(x, y) ==
    (Len(x) * Sum(Products(x, x)) - Sum(x) * Sum(x))
    * (Len(y) * Sum(Products(y, y)) - Sum(y) * Sum(y))

\* pearsonr without the length check: fewer than two points give NaN
pearsonr_unchecked(x, y) ==
    IF Len(x) < 2 \/ IsConstant(x) \/ IsConstant(y)
    THEN [raises |-> FALSE, correlation |-> NaN, p_value |-> NaN]
    ELSE [raises |-> FALSE,
          correlation |-> Number(Len(x), PearsonNum(x, y), PearsonDen2(x, y)),
          p_value |-> Number(Len(x), PearsonNum(x, y), PearsonDen2(x, y))]

\* scipy.stats.pearsonr(x, y): ValueError below two points; (nan, nan), with a
\* warning only, when either input is constant; (+-1, 1.0) for two points;
\* else r and its two-sided p-value
pearsonr(x, y) ==
    IF Len(x) < 2
    THEN [raises |-> TRUE, correlation |-> NoValue, p_value |-> NoValue]
    ELSE IF IsConstant(x) \/ IsConstant(y)
    THEN [raises |-> FALSE, correlation |-> NaN, p_value |-> NaN]
    ELSE IF Len(x) = 2
    THEN [raises |-> FALSE,
          correlation |-> Number(2, Sign(x[2] - x[1]) * Sign(y[2] - y[1]), 1),
          p_value |-> Number(2, Sign(x[2] - x[1]) * Sign(y[2] - y[1]), 1)]
    ELSE [raises |-> FALSE,
          correlation |-> Number(Len(x), PearsonNum(x, y), PearsonDen2(x, y)),
          p_value |-> Number(Len(x), PearsonNum(x, y), PearsonDen2(x, y))]

\* The square of the smallest |r| whose two-sided p-value is below 0.05 for n
\* points, in millionths: t^2 / (t^2 + n - 2) at Student's t quantile 0.975 with
\* n - 2 degrees of freedom (0.9025 is exact for n = 4).  No r of n points is
\* significant for n = 2, where the p-value is 1.
CriticalR2(n) ==
    CASE n = 3 -> 993844
      [] n = 4 -> 902500
      [] n = 5 -> 771479
      [] n = 6 -> 658370
      [] n = 7 -> 569259

\* p_value < 0.05: False for NaN, as every comparison with NaN
Below05(p) ==
    /\ p.kind = "num"
    /\ p.n > 2
    /\ p.num * p.num * 1000000 > CriticalR2(p.n) * p.den2

-----------------------------------------------------------------------------
(* The analysis *)

Chart == "Cat_vs_Stock_Chart.png"
Report == "Cat_vs_Stock_Report.xlsx"
Csv == "Cat_vs_Stock_Data.csv"

\* return None, None, None
NoneTriple == [isNone |-> TRUE, merged |-> <<>>, correlation |-> NoValue,
               p_value |-> NoValue]

\* the local merged before line 71 is reached
Unset == [set |-> FALSE, rows |-> <<>>]

Column(rows, c) == [i \in 1..Len(rows) |-> rows[i][c]]

\* analyze_cats_vs_stocks(cat, stock) entered when the clock reads clock: the
\* two frames and its local merged as it leaves them, what it returns, the verdict it prints, the
\* exception its handler caught and the files it wrote
analyze_cats_vs_stocks(cat, stock, clock) ==
    LET dated == SetCol(cat, "Date", date_range(clock, NRows(cat)))
    IN  IF "IsFinanceInspired" \notin DOMAIN cat
        THEN \* line 68 raises KeyError, after line 66 has set the Date column
             [cat |-> dated, stock |-> stock, merged |-> Unset, result |-> NoneTriple,
              verdict |-> "none", err |-> "KeyError", written |-> {}]
        ELSE LET cat_trend == cat_trend_of(dated)
                 converted == SetCol(stock, "Date",
                                [i \in 1..NRows(stock) |-> to_datetime(stock["Date"][i])])
                 rows == fillna(merge(StockRows(converted), cat_trend))
                 r == pearsonr(Column(rows, "Close"), Column(rows, "FinanceCatCount"))
             IN  IF r.raises
                 THEN \* line 89 raises ValueError, after line 86 has saved the chart
                      [cat |-> dated, stock |-> converted,
                       merged |-> [set |-> TRUE, rows |-> rows], result |-> NoneTriple,
                       verdict |-> "none", err |-> "ValueError", written |-> {Chart}]
                 ELSE [cat |-> dated, stock |-> converted,
                       merged |-> [set |-> TRUE, rows |-> rows],
                       result |-> [isNone |-> FALSE, merged |-> rows,
                                   correlation |-> r.correlation, p_value |-> r.p_value],
                       verdict |-> IF Below05(r.p_value) THEN "significant"
                                   ELSE "not significant",
                       err |-> "none", written |-> {Chart}]

\* what a caller handed to analyze_cats_vs_stocks, apart from the Date column the
\* function itself puts on the label frame and from how a price date is written
InputView(cat, stock) ==
    [labels |-> [c \in (DOMAIN cat) \ {"Date"} |-> cat[c]],
     dates |-> [i \in 1..NRows(stock) |-> Instant(stock["Date"][i])],
     close |-> stock["Close"]]

-----------------------------------------------------------------------------
(* Inputs *)

\* labels of the pipeline's label table: a finance-themed and a plain name
LabelPool == {names[1], names[10]}

\* closing prices
Closes == {100, 102}

\* how the price source writes a date: a calendar day, or a midnight Timestamp
DateKinds == {"day", "ts"}

DateValue(kind, d) == IF kind = "ts" THEN Timestamp(d, 0) ELSE [kind |-> "day", day |-> d]

LabelFrames ==
    UNION {{[CatName |-> l] : l \in [1..n -> LabelPool]} : n \in 0..MaxLabels}

\* price frames: dates ascending, a date possibly repeated
PriceFrames ==
    UNION {{[Date |-> [i \in 1..n |-> DateValue(k, d[i])], Close |-> c] :
              d \in {f \in [1..n -> 1..MaxDay] : \A i \in 1..(n - 1) : f[i] <= f[i + 1]},
              c \in [1..n -> Closes], k \in DateKinds} : n \in 0..MaxPrices}

\* free-form label texts: every text over a few letters, and the names of the source
Letters == {"m", "u", "s", "k", "M", "K", "y"}
Texts == UNION {[1..n -> Letters] : n \in 0..MaxLen}
           \cup {names[i] : i \in 1..Len(names)}
           \cup {<<"M","U","S","K">>, <<"m","u","s","k","y">>, <<"C","A","S","H">>,
                 <<"b","i","t","C","o","i","n","s">>, <<"t","e","s","l">>}

-----------------------------------------------------------------------------
(* The state machine *)

InitWith(labelFrames, priceFrames) ==
    /\ cat_df \in labelFrames
    /\ stock_df \in priceFrames
    /\ now \in {Timestamp(MaxDay, t) : t \in TimesOfDay}
    /\ merged = Unset
    /\ result = NoneTriple
    /\ verdict = "none"
    /\ err = "none"
    /\ written = {}
    /\ op = "init"
    /\ pre_cat = cat_df
    /\ pre_stock = stock_df
    /\ call = [view |-> InputView(cat_df, stock_df), now |-> now]
    /\ prev = [view |-> InputView(cat_df, stock_df), now |-> now, merged |-> Unset,
               result |-> NoneTriple]
    /\ runs = 0

Init == InitWith(LabelFrames, PriceFrames)

\* cat_df = prep_cat_name_data(cat_df), on a label table not prepared yet
Prep ==
    /\ "IsFinanceInspired" \notin DOMAIN cat_df
    /\ cat_df' = prep_cat_name_data(cat_df)
    /\ op' = "prep"
    /\ pre_cat' = cat_df
    /\ pre_stock' = stock_df
    /\ UNCHANGED <<stock_df, now, merged, result, verdict, err, written, call, prev, runs>>

\* merged, correlation, p_value = analyze_cats_vs_stocks(cat_df, stock_df)
Analyze ==
    /\ runs < MaxRuns
    /\ LET out == analyze_cats_vs_stocks(cat_df, stock_df, now)
       IN  /\ cat_df' = out.cat
           /\ stock_df' = out.stock
           /\ merged' = out.merged
           /\ result' = out.result
           /\ verdict' = out.verdict
           /\ err' = out.err
           /\ written' = out.written
    /\ op' = "analyze"
    /\ pre_cat' = cat_df
    /\ pre_stock' = stock_df
    /\ call' = [view |-> InputView(cat_df, stock_df), now |-> now]
    /\ prev' = [view |-> call.view, now |-> call.now, merged |-> merged, result |-> result]
    /\ runs' = runs + 1
    /\ UNCHANGED now

\* if merged is not None: export_reports(merged, correlation, p_value)
Export ==
    /\ op = "analyze"
    /\ ~result.isNone
    /\ written' = written \cup {Report, Csv}
    /\ op' = "export"
    /\ pre_cat' = cat_df
    /\ pre_stock' = stock_df
    /\ UNCHANGED <<cat_df, stock_df, now, merged, result, verdict, err, call, prev, runs>>

\* the wall clock moves on between two analyze calls (what it did before the
\* first call is the clock reading Init chooses; after the last, nothing reads it)
Tick ==
    /\ 0 < runs /\ runs < MaxRuns
    /\ \E d \in now.day..(MaxDay + 1), t \in TimesOfDay :
          /\ Before(now, Timestamp(d, t))
          /\ now' = Timestamp(d, t)
    /\ UNCHANGED <<cat_df, stock_df, merged, result, verdict, err, written, op,
                   pre_cat, pre_stock, call, prev, runs>>

Next == Prep \/ Analyze \/ Export \/ Tick

Spec == Init /\ [][Next]_vars

\* the classifier alone, on one-row label tables of free-form text
InitLabel == InitWith({[CatName |-> <<t>>] : t \in Texts}, {[Date |-> <<>>, Close |-> <<>>]})

NextLabel == Prep

SpecLabel == InitLabel /\ [][NextLabel]_vars

-----------------------------------------------------------------------------
(* Vocabulary of the properties *)

\* an analyze call has just returned
Analyzed == op = "analyze"

\* ... and had reached the join
Joined == Analyzed /\ merged.set

\* a correlation that is a number, and zero
IsZero(c) == c.kind = "num" /\ c.num = 0

Prepared(df) == "IsFinanceInspired" \in DOMAIN df

UniqueDates(df) ==
    \A i, j \in 1..NRows(df) :
        Instant(df["Date"][i]) = Instant(df["Date"][j]) => i = j

\* t holds the text k in consecutive positions
HasSubstring(t, k) ==
    \E a \in 0..(Len(t) - Len(k)) : SubSeq(t, a + 1, a + Len(k)) = k

ContainsKeyword(t) ==
    \E k \in 1..Len(finance_keywords) : HasSubstring(t, finance_keywords[k])

\* finance-themed labelled events of the last call whose synthetic date falls on
\* the calendar day d
FinanceEventsOn(d) ==
    {j \in 1..NRows(cat_df) : cat_df["IsFinanceInspired"][j] /\ cat_df["Date"][j].day = d}

-----------------------------------------------------------------------------
(* C1 *)

\* C1: the merged rows of the join are as many as the price rows handed in, and
\* the i-th merged row carries the date (the same instant) and the close of the
\* i-th price row.  Stated for every price table, a repeated date included.
C1_MergedFollowsPrices ==
    Joined =>
        /\ Len(merged.rows) = NRows(pre_stock)
        /\ \A i \in 1..NRows(pre_stock) :
              /\ Instant(merged.rows[i].Date) = Instant(pre_stock["Date"][i])
              /\ merged.rows[i].Close = pre_stock["Close"][i]

C1_Witness ==
    /\ Joined
    /\ UniqueDates(pre_stock)
    /\ Len(merged.rows) = 2
    /\ merged.rows[1].FinanceCatCount = 0
    /\ merged.rows[2].FinanceCatCount = 1

(* C2 *)

\* C2: with unique price dates, each merged row's FinanceCatCount is the number
\* of finance-themed labelled events whose synthetic date is the same calendar
\* day as the row's price date.
C2_CountsPerCalendarDay ==
    (Joined /\ UniqueDates(pre_stock)) =>
        \A i \in 1..Len(merged.rows) :
            merged.rows[i].FinanceCatCount
                = Cardinality(FinanceEventsOn(merged.rows[i].Date.day))

(* C3 *)

\* C3: an analyze call that failed in the join or in the correlation has written
\* no file, and returns no result, which is not a correlation of zero.
C3_FailureLeavesNoOutput ==
    (Analyzed /\ err # "none") =>
        /\ written = {}
        /\ result.isNone
        /\ ~IsZero(result.correlation)

(* C4 *)

\* C4: a price table with a repeated date is rejected with a validation error
\* and yields no merged rows.
C4_DuplicateDatesRejected ==
    (Analyzed /\ Prepared(pre_cat) /\ ~UniqueDates(pre_stock)) =>
        /\ err = "ValidationError"
        /\ merged.rows = <<>>

(* C5 *)

C6_ConstantColumnIsError ==
    (Joined /\ Len(merged.rows) >= 2
        /\ (IsConstant(Column(merged.rows, "Close"))
            \/ IsConstant(Column(merged.rows, "FinanceCatCount")))) =>
        /\ err # "none"
        /\ result.isNone
        /\ result.correlation.kind # "nan"

(* C7 *)

\* C7: the Date column analyze puts on a label table of N rows has N values,
\* distinct, each the calendar day after the one before, the last on the clock's
\* day at the call; the labels keep their order, so the i-th has the i-th date.
C7_DatesConsecutive ==
    Analyzed =>
        LET N == NRows(pre_cat)
            d == cat_df["Date"]
        IN  /\ Len(d) = N
            /\ cat_df["CatName"] = pre_cat["CatName"]
            /\ \A i \in 1..(N - 1) : d[i + 1].day = d[i].day + 1
            /\ \A i, j \in 1..N : d[i].day = d[j].day => i = j
            /\ N > 0 => d[N].day = call.now.day

C7_Witness ==
    /\ Analyzed
    /\ NRows(pre_cat) = 2
    /\ cat_df["Date"][1].day = call.now.day - 1
    /\ cat_df["Date"][2].day = call.now.day

(* C8 *)

\* C8: prep_cat_name_data marks a label exactly when its lowercased text holds
\* one of the keywords as a substring; the empty label is not marked.
C8_ClassifierIsSubstringMatch ==
    op = "prep" =>
        \A i \in 1..NRows(pre_cat) :
            /\ cat_df["IsFinanceInspired"][i]
                   = ContainsKeyword(str_lower(pre_cat["CatName"][i]))
            /\ pre_cat["CatName"][i] = <<>> => ~cat_df["IsFinanceInspired"][i]

C8_Witness ==
    /\ op = "prep"
    /\ pre_cat["CatName"] = << <<"y","M","u","s","K">> >>
    /\ cat_df["IsFinanceInspired"] = <<TRUE>>

(* C9 *)

\* two analyze calls in succession on the same label and price inputs, both
\* reaching the join
TwiceOnSameInputs ==
    /\ Analyzed
    /\ runs >= 2
    /\ call.view = prev.view
    /\ merged.set /\ prev.merged.set

\* C9 as stated: the two calls yield the same merged rows whatever the clock
\* did between them.
C9_SameMergedWhateverTheClock ==
    TwiceOnSameInputs => merged.rows = prev.merged.rows

\* C9 as amended: the two calls yield the same merged rows and the same result
\* when the clock reads the same at both.
C9_SameMergedAtSameClock ==
    (TwiceOnSameInputs /\ call.now = prev.now) =>
        /\ merged.rows = prev.merged.rows
        /\ result = prev.result

C9_Witness ==
    /\ TwiceOnSameInputs
    /\ call.now = prev.now
    /\ \E i \in 1..Len(merged.rows) : merged.rows[i].FinanceCatCount > 0

(* C10 *)

=============================================================================
